---- MODULE Spec2Model ----
(***************************************************************************)
(* libcmdapp (src/src/app.c): the option registry and the argument scan of *)
(* cmdapp_run, as a state machine.                                         *)
(*                                                                         *)
(* Strings are sequences of one-character strings.  An argv token is the   *)
(* byte buffer it lives in: cmdapp_run overwrites the '=' of a long option *)
(* with a terminator (line 187), so a buffer may hold NUL in the middle    *)
(* and the C string at an offset ends at the first NUL after it.           *)
(* A pointer that may be NULL is a sequence of length 0 (NULL) or 1.       *)
(***************************************************************************)
EXTENDS Integers, Sequences, FiniteSets, TLC

(* ------------------------------ bounds -------------------------------- *)

\* argc of the vectors the scans are given (program name included)
MaxArgc == 3
\* number of cmdapp_set calls on one app
MaxOpts == 2
\* number of cmdapp_set calls on one app that is only registered on
MaxRegOpts == 7
\* argc of the vectors whose positionals outgrow the first buffer
MaxBufArgc == 6

(* --------------------------- C strings -------------------------------- *)

\* the terminator byte, also the "no short name" value of cmdopt_t.shorto
NUL == "NUL"
\* the NULL pointer
NULL == <<>>

Ptr(s) == <<s>>

Min(S) == CHOOSE x \in S : \A y \in S : x <= y

\* str[j], j counted from 0; the byte after the last one is the terminator
CharAt(str, j) == IF j < Len(str) THEN str[j + 1] ELSE NUL

\* the C string that starts at byte `off` of buffer `buf`
CStr(buf, off) ==
    LET ends == {k \in (off + 1)..Len(buf) : buf[k] = NUL}
        e    == IF ends = {} THEN Len(buf) + 1 ELSE Min(ends)
    IN  SubSeq(buf, off + 1, e - 1)

\* strchr(str, c): the offset of the first c of the C string, -1 for NULL
strchr(buf, c) ==
    LET s    == CStr(buf, 0)
        hits == {k \in 1..Len(s) : s[k] = c}
    IN  IF hits = {} THEN -1 ELSE Min(hits) - 1

\* bitwise OR of two uint8_t values
RECURSIVE BitOr(_, _)
BitOr(a, b) ==
    IF a = 0 THEN b
    ELSE IF b = 0 THEN a
    ELSE (IF (a % 2 = 1) \/ (b % 2 = 1) THEN 1 ELSE 0)
         + 2 * BitOr(a \div 2, b \div 2)

(* ------------------------ app.h (not in src/) ------------------------- *)

\* option attribute bits and the two short-option modes, as bit masks
CMDOPT_OPTIONAL == 0
CMDOPT_TAKESARG == 1
CMDOPT_EXISTS == 2
CMDAPP_MODE_SHORTARG == 1
CMDAPP_MODE_MULTIFLAG == 2

\* the long names cmdapp_run answers itself (lines 205, 208)
HELP == <<"h", "e", "l", "p">>
VERSION == <<"v", "e", "r", "s", "i", "o", "n">>

EXIT_SUCCESS == "EXIT_SUCCESS"
EXIT_FAILURE == "EXIT_FAILURE"

(* ------------------------------ inputs -------------------------------- *)

PROG == <<"p", "r", "o", "g">>

\* the tokens the argument vectors are built from
Tokens ==
    { <<"p">>,
      <<"-", "-">>,
      <<"-", "a">>,
      <<"-", "a", "x">>,
      <<"-", "o">>,
      <<"-", "o", "f">>,
      <<"-", "-", "a", "l", "l">>,
      <<"-", "-", "a", "l", "l", "=", "f">>,
      <<"-", "-", "o", "u", "t">>,
      <<"-", "-", "o", "u", "t", "=", "f">>,
      <<"-", "-">> \o HELP,
      <<"-", "-">> \o VERSION,
      <<"-", "-", "b", "o", "g", "u", "s">> }

\* the vectors main() can pass: argv[0] is the program name
Argvs ==
    UNION { {<<PROG>> \o t : t \in [1..n -> Tokens]} : n \in 0..(MaxArgc - 1) }

\* the tokens of the vectors a caller rescans with (SpecReuse)
ReuseTokens == { <<"p">>, <<"-", "-">>, <<"-", "o">> }

ReuseArgvs ==
    UNION { {<<PROG>> \o t : t \in [1..n -> ReuseTokens]} : n \in 0..(MaxArgc - 1) }

\* vectors of positionals and markers, long enough for the buffer to grow
BufferTokens == { <<"p">>, <<"-", "-">> }

BufferArgvs ==
    UNION { {<<PROG>> \o t : t \in [1..n -> BufferTokens]} : n \in 0..(MaxBufArgc - 1) }

\* the (shorto, longo, flags) triples cmdapp_set is called with
OptionPool ==
    { [shorto |-> "a", longo |-> Ptr(<<"a", "l", "l">>), flags |-> CMDOPT_OPTIONAL],
      [shorto |-> "o", longo |-> Ptr(<<"o", "u", "t">>), flags |-> CMDOPT_TAKESARG],
      [shorto |-> "x", longo |-> NULL,                   flags |-> CMDOPT_OPTIONAL],
      [shorto |-> NUL, longo |-> Ptr(HELP), flags |-> CMDOPT_OPTIONAL] }

(* ------------------------------- state -------------------------------- *)

VARIABLES
    argc,        \* app->_argc
    argv,        \* app->_argv: the caller's token buffers, argv[1] is argv[0] of C
    mode,        \* app->_mode
    opts,        \* app->_start[0 .. _length-1]: the registered cmdopt_t
    capacity,    \* app->_capacity
    args,        \* app->_args.contents[0 .. _args.length-1]
    contents,    \* whether app->_args.contents is allocated ("NULL" or "heap")
    args_cap,    \* cmdapp_run's local args_cap
    pc,          \* "idle", "run" (inside cmdapp_run's loop), "crashed"
    i,           \* cmdapp_run's loop index
    only_args,   \* cmdapp_run's local only_args
    current,     \* the token the loop last fetched (line 171): its index and
                 \* its text as it was read, before line 187 cuts it
    ret,         \* what the last cmdapp_run returned, "none" before the first
    err,         \* the diagnostic the scan printed with eprintf
    out,         \* what the scan printed on stdout (help or version)
    last         \* what the caller got from the cmdapp_run call before this one

vars == <<argc, argv, mode, opts, capacity, args, contents, args_cap, pc, i,
          only_args, current, ret, err, out, last>>

NoErr == [kind |-> "none", text |-> <<>>]
NoOut == [what |-> "none", rows |-> <<>>]
NoToken == [at |-> -1, text |-> <<>>]
NoCall == [ret |-> "none", kind |-> "none", text |-> <<>>, at |-> -1]

\* cmdapp_init, given one of the vectors V
InitOn(V) ==
    /\ argv \in V
    /\ argc = Len(argv)
    /\ mode \in {CMDAPP_MODE_SHORTARG, CMDAPP_MODE_MULTIFLAG}
    /\ opts = <<>>
    /\ capacity = 4
    /\ args = <<>>
    /\ contents = "NULL"
    /\ args_cap = 0
    /\ pc = "idle"
    /\ i = 0
    /\ only_args = FALSE
    /\ current = NoToken
    /\ ret = "none"
    /\ err = NoErr
    /\ out = NoOut
    /\ last = NoCall

Init == InitOn(Argvs)

(* ----------------------------- registry ------------------------------- *)

\* cmdapp_append with the storage grown one append late
cmdapp_append_late(option) ==
    /\ capacity' = IF Len(opts) > capacity
                   THEN capacity + (capacity \div 2)
                   ELSE capacity
    /\ opts' = Append(opts, option)

\* cmdapp_append: grow by half when full, then store
cmdapp_append(option) ==
    /\ capacity' = IF Len(opts) + 1 > capacity
                   THEN capacity + (capacity \div 2)
                   ELSE capacity
    /\ opts' = Append(opts, option)

\* cmdapp_set (conflicts == NULL): fill the caller's cmdopt_t and append it.
\* Callers register before the first scan (ret = "none"); the conflict list
\* and the description are stored and read by no scan.
cmdapp_set(shorto, longo, flags) ==
    /\ pc = "idle"
    /\ ret = "none"
    /\ cmdapp_append([shorto |-> shorto, longo |-> longo, flags |-> flags,
                      value |-> NULL])
    /\ UNCHANGED <<argc, argv, mode, args, contents, args_cap, pc, i,
                   only_args, current, ret, err, out, last>>

\* The loop of cmdapp_search over entries k.. of registry r.  The result is
\* the set of results the call can have: k >= 1 for "found entry k", 0 for
\* NULL, -1 for a crash.  strcmp on an absent long name (line 141) reads
\* through a NULL pointer, which is undefined: the call crashes or, where
\* address 0 is readable, finds an empty string there.
RECURSIVE SearchFrom(_, _, _, _)
SearchFrom(r, k, shorto, longo) ==
    IF k > Len(r) THEN {0}
    ELSE IF longo = NULL
    THEN IF r[k].shorto = shorto THEN {k} ELSE SearchFrom(r, k + 1, shorto, longo)
    ELSE IF r[k].longo = NULL
         THEN {-1} \cup (IF longo[1] = <<>>
                          THEN {k}
                          ELSE SearchFrom(r, k + 1, shorto, longo))
         ELSE IF r[k].longo[1] = longo[1]
              THEN {k}
              ELSE SearchFrom(r, k + 1, shorto, longo)

cmdapp_search(r, shorto, longo) == SearchFrom(r, 1, shorto, longo)

\* cmdapp_print_help: the registry slots whose option it prints, in order
\* (0 for a slot at or beyond _length, whose pointer is indeterminate:
\* dereferencing it may crash or print garbage).  The loop runs to _argc.
cmdapp_print_help ==
    IF Len(opts) = 0 THEN {[crash |-> FALSE, rows |-> <<>>]}
    ELSE IF argc <= Len(opts)
    THEN {[crash |-> FALSE, rows |-> [k \in 1..argc |-> k]]}
    ELSE {[crash |-> c,
           rows  |-> [k \in 1..(IF c THEN Len(opts) ELSE argc) |->
                         IF k <= Len(opts) THEN k ELSE 0]] : c \in BOOLEAN}

(* ------------------------------ the scan ------------------------------ *)

IS_END_OF_FLAGS(str) ==
    CharAt(str, 0) = "-" /\ CharAt(str, 1) = "-" /\ CharAt(str, 2) = NUL
IS_LONG_FLAG(str) == CharAt(str, 0) = "-" /\ CharAt(str, 1) = "-"
IS_SHORT_FLAG(str) == CharAt(str, 0) = "-"

\* what one pass of the loop body leaves behind, started from the state
\* at the top of the loop; the for statement's i++ is included
LoopState ==
    [argv |-> argv, opts |-> opts, args |-> args, args_cap |-> args_cap,
     i |-> i + 1, only_args |-> only_args, pc |-> "run", ret |-> "none",
     err |-> err, out |-> out]

\* APPEND_ARG
APPEND_ARG(st, arg) ==
    [st EXCEPT !.args_cap = IF Len(st.args) + 1 > st.args_cap
                            THEN st.args_cap + (st.args_cap \div 2)
                            ELSE st.args_cap,
               !.args = Append(st.args, arg)]

\* Fail with the diagnostic's text argument one character further on
FailTextOffByOne(st, kind, text) ==
    [st EXCEPT !.pc = "idle", !.ret = EXIT_FAILURE, !.i = st.i - 1,
               !.err = [kind |-> kind, text |-> Tail(text)]]

\* eprintf(...); return EXIT_FAILURE;  -- i stays at the offending token
Fail(st, kind, text) ==
    [st EXCEPT !.pc = "idle", !.ret = EXIT_FAILURE, !.i = st.i - 1,
               !.err = [kind |-> kind, text |-> text]]

\* return EXIT_SUCCESS from inside the loop, after printing `what`
Printed(st, what, rows) ==
    [st EXCEPT !.pc = "idle", !.ret = EXIT_SUCCESS, !.i = st.i - 1,
               !.out = [what |-> what, rows |-> rows]]

Crash(st) == [st EXCEPT !.pc = "crashed", !.i = st.i - 1]

\* MarkExists with = in place of |=
MarkExistsAssigns(st, k) ==
    [st EXCEPT !.opts[k].flags = CMDOPT_EXISTS]

\* arg_int->result->flags |= CMDOPT_EXISTS
MarkExists(st, k) ==
    [st EXCEPT !.opts[k].flags = BitOr(st.opts[k].flags, CMDOPT_EXISTS)]

\* const char* next = app->_argv[i + 1]; argv[argc] is the NULL terminator
NextArg == IF i + 1 < argc THEN Ptr(CStr(argv[i + 2], 0)) ELSE NULL

NextIsValue(next) == next # NULL /\ CharAt(next[1], 0) # "-"

\* lines 182-215: a token that starts with "--" and is not the marker
LongFlag(st) ==
    LET cur   == argv[i + 1]
        eq    == strchr(cur, "=")
        \* *arg = 0: the '=' of the caller's buffer becomes a terminator
        buf   == IF eq >= 0 THEN [cur EXCEPT ![eq + 1] = NUL] ELSE cur
        arg   == IF eq >= 0 THEN Ptr(CStr(buf, eq + 1)) ELSE NULL
        name  == CStr(buf, 0)
        st1   == [st EXCEPT !.argv[i + 1] = buf]
        Found(k) ==
            IF BitOr(st1.opts[k].flags, CMDOPT_TAKESARG) # 0
            THEN IF arg = NULL
                 THEN {Fail(st1, "MissingArgument", name)}
                 ELSE {MarkExists([st1 EXCEPT !.opts[k].value = arg], k)}
            ELSE IF arg # NULL
                 THEN {Fail(st1, "UnexpectedArgument", name)}
                 ELSE {MarkExists(st1, k)}
        NotFound ==
            IF name = <<"-", "-">> \o HELP
            THEN {IF h.crash THEN Crash(st1) ELSE Printed(st1, "help", h.rows) :
                     h \in cmdapp_print_help}
            ELSE IF name = <<"-", "-">> \o VERSION
            THEN {Printed(st1, "version", <<>>)}
            ELSE {Fail(st1, "UnrecognizedOption", name)}
    IN  UNION { IF k = -1 THEN {Crash(st1)}
                ELSE IF k = 0 THEN NotFound
                ELSE Found(k) :
                k \in cmdapp_search(opts, NUL, Ptr(CStr(buf, 2))) }

\* lines 218-238: the CMDAPP_MODE_SHORTARG branch of a "-" token
ShortArg(st) ==
    LET cur  == argv[i + 1]
        c    == CharAt(cur, 1)
        next == NextArg
        Found(k) ==
            LET st1 == [st EXCEPT !.opts[k].value = NULL] IN
            IF BitOr(st1.opts[k].flags, CMDOPT_TAKESARG) # 0
            THEN LET st2 == [st1 EXCEPT !.opts[k].value = Ptr(CStr(cur, 2))] IN
                 IF NextIsValue(next)
                 THEN {MarkExists([st2 EXCEPT !.opts[k].value = next,
                                              !.i = i + 2], k)}
                 ELSE {Fail(st2, "MissingArgument", <<"-", c>>)}
            ELSE IF CharAt(cur, 2) # NUL \/ NextIsValue(next)
                 THEN {Fail(st1, "UnexpectedArgument", <<"-", c>>)}
                 ELSE {MarkExists(st1, k)}
    IN  UNION { IF k = 0 THEN {Fail(st, "UnrecognizedOption", <<"-", c>>)}
                ELSE Found(k) :
                k \in cmdapp_search(opts, c, NULL) }

\* lines 240-257: the CMDAPP_MODE_MULTIFLAG branch, from position j of the
\* token.  Every pass looks up current[1] and tests value[2], the byte at
\* current[4]; beyond the token's terminator that read is undefined (a
\* crash, zero or nonzero).  i is counted up once per pass that takes next.
RECURSIVE MultiFlag(_, _)
MultiFlag(st, j) ==
    LET cur  == argv[i + 1]
        c    == CharAt(cur, 1)
        next == NextArg
        Found(k) ==
            LET st1  == [st EXCEPT !.opts[k].value = Ptr(CStr(cur, 2))]
                zero == IF 4 <= Len(cur) THEN {CharAt(cur, 4) = NUL} ELSE BOOLEAN
                Take == IF NextIsValue(next)
                        THEN MultiFlag([st1 EXCEPT !.opts[k].value = next,
                                                   !.i = st1.i + 1], j + 1)
                        ELSE {Fail(st1, "MissingArgument", <<"-", c>>)}
            IN  UNION { IF z THEN Take ELSE MultiFlag(st1, j + 1) : z \in zero }
                \cup (IF 4 <= Len(cur) THEN {} ELSE {Crash(st1)})
    IN  IF CharAt(cur, j) = NUL THEN {st}
        ELSE UNION { IF k = 0
                     THEN {Fail(st, "UnrecognizedOption", <<"-", c>>)}
                     ELSE Found(k) :
                     k \in cmdapp_search(st.opts, c, NULL) }

\* LoopBody with the only_args test (line 172) passed over for "--" tokens
LoopBodyFlagsAfterMarker ==
    LET cur == argv[i + 1]
        st  == LoopState
    IN  IF only_args /\ ~IS_LONG_FLAG(cur) THEN {APPEND_ARG(st, CStr(cur, 0))}
        ELSE IF IS_END_OF_FLAGS(cur) THEN {[st EXCEPT !.only_args = TRUE]}
        ELSE IF IS_LONG_FLAG(cur) THEN LongFlag(st)
        ELSE IF IS_SHORT_FLAG(cur)
        THEN IF BitOr(mode, CMDAPP_MODE_SHORTARG) # 0
             THEN ShortArg(st)
             ELSE MultiFlag(st, 1)
        ELSE {APPEND_ARG(st, CStr(cur, 0))}

\* lines 171-261: the loop body on token argv[i], as the set of states it
\* can leave
LoopBody ==
    LET cur == argv[i + 1]
        st  == LoopState
    IN  IF only_args THEN {APPEND_ARG(st, CStr(cur, 0))}
        ELSE IF IS_END_OF_FLAGS(cur) THEN {[st EXCEPT !.only_args = TRUE]}
        ELSE IF IS_LONG_FLAG(cur) THEN LongFlag(st)
        ELSE IF IS_SHORT_FLAG(cur)
        THEN IF BitOr(mode, CMDAPP_MODE_SHORTARG) # 0
             THEN ShortArg(st)
             ELSE MultiFlag(st, 1)
        ELSE {APPEND_ARG(st, CStr(cur, 0))}

\* run_begin without line 157, the reset of the list's length
run_begin_keeps_length ==
    /\ pc = "idle"
    /\ args' = args
    /\ contents' = "heap"
    /\ args_cap' = 4
    /\ only_args' = FALSE
    /\ i' = 0
    /\ pc' = "run"
    /\ ret' = "none"
    /\ err' = NoErr
    /\ out' = NoOut
    /\ current' = NoToken
    /\ last' = IF ret = "none" THEN last
               ELSE [ret |-> ret, kind |-> err.kind, text |-> err.text, at |-> i]
    /\ UNCHANGED <<argc, argv, mode, opts, capacity>>

\* cmdapp_run, lines 155-169: recycle the positional buffer, enter the loop
run_begin ==
    /\ pc = "idle"
    /\ IF contents # "NULL" THEN args' = <<>> ELSE args' = args
    /\ contents' = "heap"
    /\ args_cap' = 4
    /\ only_args' = FALSE
    /\ i' = 0
    /\ pc' = "run"
    /\ ret' = "none"
    /\ err' = NoErr
    /\ out' = NoOut
    /\ current' = NoToken
    /\ last' = IF ret = "none" THEN last
               ELSE [ret |-> ret, kind |-> err.kind, text |-> err.text, at |-> i]
    /\ UNCHANGED <<argc, argv, mode, opts, capacity>>

\* cmdapp_run, lines 170-262: one pass of the loop
run_step ==
    /\ pc = "run"
    /\ i < argc
    /\ current' = [at |-> i, text |-> CStr(argv[i + 1], 0)]
    /\ \E st \in LoopBody :
          /\ argv' = st.argv
          /\ opts' = st.opts
          /\ args' = st.args
          /\ args_cap' = st.args_cap
          /\ i' = st.i
          /\ only_args' = st.only_args
          /\ pc' = st.pc
          /\ ret' = st.ret
          /\ err' = st.err
          /\ out' = st.out
    /\ UNCHANGED <<argc, mode, capacity, contents, last>>

\* cmdapp_run, line 264: argv is exhausted
run_return ==
    /\ pc = "run"
    /\ i >= argc
    /\ pc' = "idle"
    /\ ret' = EXIT_SUCCESS
    /\ UNCHANGED <<argc, argv, mode, opts, capacity, args, contents, args_cap,
                   i, only_args, current, err, out, last>>

Next ==
    \/ \E o \in OptionPool :
          Len(opts) < MaxOpts /\ cmdapp_set(o.shorto, o.longo, o.flags)
    \/ run_begin
    \/ run_step
    \/ run_return

Spec == Init /\ [][Next]_vars

\* The app keeps the caller's argv pointer (line 44) and cmdapp_run reads the
\* vector anew on every call: between two scans the caller may store other
\* tokens in its slots.
store_argv(V) ==
    /\ pc = "idle"
    /\ ret # "none"
    /\ \E v \in V : Len(v) = argc /\ v # argv /\ argv' = v
    /\ UNCHANGED <<argc, mode, opts, capacity, args, contents, args_cap, pc, i,
                   only_args, current, ret, err, out, last>>

set_argv == store_argv(ReuseArgvs)

InitReuse == InitOn(ReuseArgvs)

NextReuse ==
    \/ \E o \in OptionPool :
          Len(opts) < MaxOpts /\ cmdapp_set(o.shorto, o.longo, o.flags)
    \/ run_begin
    \/ run_step
    \/ run_return
    \/ set_argv

\* scans of one registry over vectors the caller changes in between
SpecReuse == InitReuse /\ [][NextReuse]_vars

\* What the caller reads after a scan: a pointer to the positional list, NULL
\* while no scan has allocated its buffer.
cmdapp_getargs == IF contents = "NULL" THEN NULL ELSE Ptr(args)

\* one app with registrations only, enough of them for the storage to grow
InitRegistry == InitOn({<<PROG>>})

NextRegistry ==
    \E o \in OptionPool :
        Len(opts) < MaxRegOpts /\ cmdapp_set(o.shorto, o.longo, o.flags)

SpecRegistry == InitRegistry /\ [][NextRegistry]_vars

\* scans of an app without options over long vectors the caller changes in
\* between
InitBuffer == InitOn(BufferArgvs)

NextBuffer ==
    \/ run_begin
    \/ run_step
    \/ run_return
    \/ store_argv(BufferArgvs)

SpecBuffer == InitBuffer /\ [][NextBuffer]_vars

(* ------------------------- reading the state -------------------------- *)

StartsWithDash(t) == CharAt(t, 0) = "-"

\* no token of vector v looks like a flag
NoFlags(v) == \A k \in 1..Len(v) : ~StartsWithDash(v[k])

\* a cmdapp_run call has returned
ScanDone == pc = "idle" /\ ret # "none"

HasBit(flags, bit) == (flags \div bit) % 2 = 1
Seen(k) == HasBit(opts[k].flags, CMDOPT_EXISTS)
TakesArg(k) == HasBit(opts[k].flags, CMDOPT_TAKESARG)

\* the token was never cut by a scan: it is what the caller passed
Intact(t) == \A k \in 1..Len(t) : t[k] # NUL

\* the first registered option with this long (short) name, 0 for none
FirstLong(name) ==
    LET S == {k \in 1..Len(opts) : opts[k].longo = Ptr(name)}
    IN  IF S = {} THEN 0 ELSE Min(S)
FirstShort(c) ==
    LET S == {k \in 1..Len(opts) : opts[k].shorto = c}
    IN  IF S = {} THEN 0 ELSE Min(S)

IsLongToken(t) == Len(t) > 2 /\ t[1] = "-" /\ t[2] = "-"
IsShortToken(t) == Len(t) >= 2 /\ t[1] = "-" /\ t[2] # "-"
EqAt(t) ==
    LET S == {k \in 1..Len(t) : t[k] = "="}
    IN  IF S = {} THEN 0 ELSE Min(S)
HasInline(t) == EqAt(t) > 0
\* the name of a long token: what stands between "--" and the first '='
LongName(t) == SubSeq(t, 3, IF HasInline(t) THEN EqAt(t) - 1 ELSE Len(t))
\* its inline value: what follows the first '='
InlineValue(t) == SubSeq(t, EqAt(t) + 1, Len(t))

\* the loop has fetched a token and classified it (no marker before it)
Classified == current.at >= 0 /\ ~only_args

Failed(kind) == pc = "idle" /\ ret = EXIT_FAILURE /\ err.kind = kind

(* ------------------------------- claims ------------------------------- *)

\* C1: a scan of a vector without flags succeeds and its positional list is
\* the vector without the program name argv[0], in order.
C1_NoFlagsPositionals ==
    (ScanDone /\ NoFlags(argv)) =>
        /\ ret = EXIT_SUCCESS
        /\ args = [k \in 1..(argc - 1) |-> argv[k + 1]]

\* C2: after the end-of-options marker every token is appended to the
\* positional list as the caller passed it, whatever it looks like, and
\* changes no option; the marker itself is not appended.
C2_AfterMarker ==
    [][ /\ (pc = "run" /\ i < argc /\ only_args) =>
              /\ Intact(argv[i + 1])
              /\ args' = Append(args, argv[i + 1])
              /\ opts' = opts
              /\ argv' = argv
              /\ only_args'
              /\ pc' = "run"
              /\ i' = i + 1
              /\ err' = err
              /\ out' = out
        /\ (pc = "run" /\ i < argc /\ ~only_args /\ argv[i + 1] = <<"-", "-">>) =>
              /\ only_args'
              /\ args' = args
              /\ opts' = opts
              /\ pc' = "run"
              /\ i' = i + 1
      ]_vars

\* a registered short option's token has just been collected after the marker
C2_Witness ==
    /\ pc = "run"
    /\ only_args
    /\ current.text = <<"-", "a">>
    /\ args # <<>>
    /\ args[Len(args)] = <<"-", "a">>
    /\ \E k \in 1..Len(opts) : opts[k].shorto = "a" /\ ~Seen(k) /\ opts[k].value = NULL

\* C3: for an option with a short and a long name that takes no argument, a
\* scan whose only flag token is the short form succeeds with the option
\* seen and without value, and so does one whose only flag token is the
\* long form.
C3_ShortAndLongForm ==
    \A k \in 1..Len(opts), j \in 2..argc :
        ( /\ ScanDone
          /\ opts[k].shorto # NUL /\ opts[k].longo # NULL /\ ~TakesArg(k)
          /\ FirstShort(opts[k].shorto) = k
          /\ FirstLong(opts[k].longo[1]) = k
          /\ \A m \in 1..argc : StartsWithDash(argv[m]) => m = j
          /\ argv[j] \in {<<"-", opts[k].shorto>>, <<"-", "-">> \o opts[k].longo[1]} )
        => (ret = EXIT_SUCCESS /\ Seen(k) /\ opts[k].value = NULL)

\* C4: for a registered argument-taking long option L the token "--L=V"
\* binds exactly V as the option's value and marks it seen; the token "--L"
\* fails with MissingArgument.
C4_InlineLongValue ==
    \A k \in 1..Len(opts) :
        ( /\ Classified
          /\ IsLongToken(current.text)
          /\ FirstLong(LongName(current.text)) = k
          /\ TakesArg(k) )
        => IF HasInline(current.text)
           THEN opts[k].value = Ptr(InlineValue(current.text)) /\ Seen(k)
           ELSE Failed("MissingArgument")

\* some token of the vector names option k by its short or its long name
NamedIn(v, k) ==
    \E m \in 2..Len(v) :
        \/ IsShortToken(v[m]) /\ v[m][2] = opts[k].shorto
        \/ IsLongToken(CStr(v[m], 0)) /\ opts[k].longo = Ptr(LongName(CStr(v[m], 0)))

\* C5: scans of one registry leak no option state: when a scan returns, an
\* option is seen, or has a value, only if the vector of that scan set it.
C5_NoLeakBetweenScans ==
    [][ (pc = "run" /\ pc' = "idle") =>
            \A k \in 1..Len(opts) :
                (Seen(k)' \/ opts'[k].value # NULL) => NamedIn(argv, k) ]_vars

\* C6: a long token whose name no option is registered under, and which is
\* not --help or --version, fails with UnrecognizedOption naming the token.
C6_UnknownLong ==
    ( /\ Classified
      /\ IsLongToken(current.text)
      /\ FirstLong(LongName(current.text)) = 0
      /\ LongName(current.text) \notin {HELP, VERSION} )
    => /\ Failed("UnrecognizedOption")
       /\ ~HasInline(current.text) => err.text = current.text

\* C7: for a registered long option that takes no argument the token
\* "--name=value" fails with UnexpectedArgument and binds no value.
C7_UnexpectedInline ==
    \A k \in 1..Len(opts) :
        ( /\ Classified
          /\ IsLongToken(current.text)
          /\ HasInline(current.text)
          /\ FirstLong(LongName(current.text)) = k
          /\ ~TakesArg(k) )
        => (Failed("UnexpectedArgument") /\ opts[k].value = NULL)

\* C8: in short-arg mode, for a registered short option that takes no
\* argument, a token with characters after the option character fails with
\* UnexpectedArgument.
C8_TrailingAfterBoolean ==
    \A k \in 1..Len(opts) :
        ( /\ mode = CMDAPP_MODE_SHORTARG
          /\ Classified
          /\ IsShortToken(current.text)
          /\ Len(current.text) > 2
          /\ FirstShort(current.text[2]) = k
          /\ ~TakesArg(k) )
        => Failed("UnexpectedArgument")

\* C9: in short-arg mode, for a registered short option that takes an
\* argument: characters left in the token are bound as the value and the
\* next token is not consumed; with none left the next token is the value if
\* it does not start with '-'; otherwise the scan fails with MissingArgument.
C9_ShortOptionValue ==
    \A k \in 1..Len(opts) :
        ( /\ mode = CMDAPP_MODE_SHORTARG
          /\ Classified
          /\ IsShortToken(current.text)
          /\ FirstShort(current.text[2]) = k
          /\ TakesArg(k) )
        => LET t    == current.text
               nxt  == IF current.at + 1 < argc THEN Ptr(argv[current.at + 2]) ELSE NULL
           IN  IF Len(t) > 2
               THEN /\ opts[k].value = Ptr(SubSeq(t, 3, Len(t)))
                    /\ Seen(k)
                    /\ pc = "run"
                    /\ i = current.at + 1
               ELSE IF nxt # NULL /\ ~StartsWithDash(nxt[1])
               THEN /\ opts[k].value = nxt
                    /\ Seen(k)
                    /\ pc = "run"
                    /\ i = current.at + 2
               ELSE Failed("MissingArgument")

\* C10: before any marker, "--help" ("--version") with no option registered
\* under that long name renders help (version) and ends the scan with
\* success at that token; with such an option registered the token is looked
\* up like any long option and nothing is rendered.
C10_HelpVersionShortCircuit ==
    ( /\ Classified
      /\ current.text \in {<<"-", "-">> \o HELP, <<"-", "-">> \o VERSION} )
    => IF FirstLong(LongName(current.text)) = 0
       THEN /\ pc = "idle"
            /\ ret = EXIT_SUCCESS
            /\ out.what = (IF LongName(current.text) = HELP THEN "help" ELSE "version")
            /\ i = current.at
       ELSE /\ out.what = "none"
            /\ pc # "crashed"
            /\ err.kind # "UnrecognizedOption"

\* C11: a scan that fails stops at the offending token, and what the caller
\* then reads with cmdapp_getargs holds none of the tokens the scan collected
\* before the error.
C11_NoPartialResult ==
    (pc = "idle" /\ ret = EXIT_FAILURE) =>
        /\ i = current.at
        /\ cmdapp_getargs = NULL \/ cmdapp_getargs = Ptr(<<>>)

\* the option a flag token names: a long token up to its first '=', a short
\* token's dash and the character after it
OptionOf(t) ==
    IF IsLongToken(t)
    THEN SubSeq(t, 1, IF HasInline(t) THEN EqAt(t) - 1 ELSE Len(t))
    ELSE SubSeq(t, 1, 2)

\* C12 as stated: the text of every error is the whole offending token as the
\* caller passed it, inline value and trailing characters included.
C12_NamesWholeToken ==
    (pc = "idle" /\ ret = EXIT_FAILURE /\ last = NoCall) =>
        err.text = current.text

\* C12: the text of every error is the option the offending token names: a
\* long token without its "=value" part, a short token's dash and first
\* character.
C12_NamesOption ==
    (pc = "idle" /\ ret = EXIT_FAILURE) =>
        /\ err.kind \in {"UnrecognizedOption", "MissingArgument", "UnexpectedArgument"}
        /\ current.at = i
        /\ StartsWithDash(current.text)
        /\ err.text = OptionOf(CStr(current.text, 0))

\* an unregistered long option passed with an inline value is reported by
\* its name
C12_Witness ==
    /\ Failed("UnrecognizedOption")
    /\ current.text = <<"-", "-", "a", "l", "l", "=", "f">>
    /\ err.text = <<"-", "-", "a", "l", "l">>
    /\ last = NoCall

\* C13: when the caller runs a failed scan again, registry and vector as the
\* first call left them, the second call fails as the first did: same kind,
\* same offending token, same text.
C13_RetryFailsIdentically ==
    (ScanDone /\ last.ret = EXIT_FAILURE) =>
        /\ ret = EXIT_FAILURE
        /\ err.kind = last.kind
        /\ i = last.at
        /\ err.text = last.text

\* C14: under the multi-flag mode chosen at cmdapp_init, a short token is
\* read character by character: when every character is a registered option
\* without argument the pass goes on with all of them seen, and when some
\* character is no registered option the scan fails with
\* UnrecognizedOption.
C14_MultiFlagBundle ==
    LET t == current.text
        Known(j) == FirstShort(t[j]) # 0
    IN  ( /\ mode = CMDAPP_MODE_MULTIFLAG
          /\ last = NoCall
          /\ Classified
          /\ IsShortToken(t) ) =>
            /\ (\A j \in 2..Len(t) : Known(j) /\ ~TakesArg(FirstShort(t[j]))) =>
                  /\ ret # EXIT_FAILURE
                  /\ \A j \in 2..Len(t) : Seen(FirstShort(t[j]))
            /\ (\E j \in 2..Len(t) : ~Known(j)) =>
                  Failed("UnrecognizedOption")

\* C15: on every registry, short-only and long-only options included, a
\* lookup by long name and a lookup by short name each have one outcome, the
\* first registered option with that name or "not found"; no lookup fails.
C15_SearchFirstMatch ==
    LET longs  == {<<"a", "l", "l">>, <<"o", "u", "t">>, HELP,
                   <<"b", "o", "g", "u", "s">>}
        shorts == {"a", "o", "x", "b"}
    IN  /\ \A n \in longs : cmdapp_search(opts, NUL, Ptr(n)) = {FirstLong(n)}
        /\ \A c \in shorts : cmdapp_search(opts, c, NULL) = {FirstShort(c)}

\* C16: a registration appends the caller's option, with no value, behind
\* the options registered before it, which stay as they are; the
\* entry is written within the capacity; the capacity is 4 on the empty
\* registry and grows, by half, exactly in the appends that find length =
\* capacity.
C16_RegistryStorage ==
    [][ /\ Len(opts) = 0 => capacity = 4
        /\ opts' = opts => capacity' = capacity
        /\ opts' # opts =>
              /\ Len(opts') = Len(opts) + 1
              /\ SubSeq(opts', 1, Len(opts)) = opts
              /\ \E o \in OptionPool :
                    opts'[Len(opts')] = [shorto |-> o.shorto, longo |-> o.longo,
                                         flags |-> o.flags, value |-> NULL]
              /\ Len(opts') <= capacity'
              /\ capacity' = IF Len(opts) = capacity
                             THEN capacity + (capacity \div 2)
                             ELSE capacity
      ]_vars

\* the storage has grown twice, at the fifth and at the seventh registration
C16_Witness ==
    /\ Len(opts) = 7
    /\ capacity = 9
    /\ opts[5].shorto = "x"
    /\ opts[7].shorto = "o"

\* what of a registry no scan may change: which options it holds, in which
\* order, under which names, and which of them take an argument
Structure(r) ==
    [k \in 1..Len(r) |->
        [shorto |-> r[k].shorto, longo |-> r[k].longo,
         takesArgument |-> HasBit(r[k].flags, CMDOPT_TAKESARG)]]

\* C17: no step of a scan, whether the scan succeeds or fails, changes the
\* number, the order, the names or the takes-argument attribute of the
\* registered options, nor the capacity of their storage.
C17_ScanKeepsStructure ==
    [][ (pc = "run" \/ pc' = "run") =>
            /\ Structure(opts') = Structure(opts)
            /\ capacity' = capacity
      ]_vars

\* a scan has failed after it marked an argument-taking option seen and
\* bound its value
C17_Witness ==
    /\ ScanDone
    /\ \E k \in 1..Len(opts) : Seen(k) /\ TakesArg(k) /\ opts[k].value # NULL
    /\ ret = EXIT_FAILURE

\* s is v with some of its entries left out
RECURSIVE Embeds(_, _)
Embeds(s, v) ==
    IF s = <<>> THEN TRUE
    ELSE IF v = <<>> THEN FALSE
    ELSE IF Head(s) = Head(v) THEN Embeds(Tail(s), Tail(v))
    ELSE Embeds(s, Tail(v))

\* C18: every scan starts on an empty positional list in a buffer of four
\* slots; a pass changes the list only by appending its token, within the
\* buffer's capacity; so the list a scan returns holds tokens of that scan's
\* vector only, in their order, none left from an earlier scan.
C18_BufferReused ==
    [][ /\ (pc = "idle" /\ pc' = "run") =>
              /\ args' = <<>>
              /\ args_cap' = 4
        /\ pc = "run" =>
              \/ args' = args /\ args_cap' = args_cap
              \/ /\ args' = Append(args, CStr(argv[i + 1], 0))
                 /\ Len(args') <= args_cap'
        /\ (pc = "run" /\ pc' = "idle") =>
              Embeds(args', [k \in 1..argc |-> CStr(argv'[k], 0)])
      ]_vars

\* a scan after an earlier one on the same app is at its loop exit: it has
\* passed a marker and collected five tokens, one more than the four slots
C18_Witness ==
    /\ pc = "run"
    /\ i = argc
    /\ argc = 6
    /\ last.ret = EXIT_SUCCESS
    /\ argv[2] = <<"-", "-">>
    /\ Len(args) = 5
    /\ args_cap = 6

\* C19: on a registry that is not empty, whatever argc is, cmdapp_print_help
\* has one outcome: it prints the registered options, each once, in
\* registration order, and reads no slot at or beyond the registry's length.
C19_HelpEnumeratesRegistry ==
    Len(opts) > 0 =>
        cmdapp_print_help =
            {[crash |-> FALSE, rows |-> [k \in 1..Len(opts) |-> k]]}

\* C20: every step of a scan is a loop pass or a return: a pass that goes on
\* has classified the token at the scan index, a token behind every token
\* classified before, and has moved the index forward, by one token or by a
\* token and its value, never beyond argc; a return leaves the index where
\* it is.  So a scan returns after at most argc passes.
C20_ScanTerminates ==
    [][ pc = "run" =>
            /\ pc' \in {"run", "idle"}
            /\ i <= argc
            /\ pc' = "run" =>
                  /\ i' \in {i + 1, i + 2}
                  /\ i' <= argc
                  /\ current'.at = i
                  /\ current'.at > current.at
            /\ pc' = "idle" => i' = i
      ]_vars

====
